---- MODULE Spec2Model ----
(***************************************************************************)
(* A model of src/marching_cubes_impl.rs: the per-cube dispatcher          *)
(* march_cube and the two edge placement primitives get_offset and         *)
(* interpolate.                                                            *)
(*                                                                         *)
(* f32 values are modelled by a binary floating-point format of the IEEE   *)
(* 754 shape (signed zeros, subnormals, infinities, NaN, round to nearest, *)
(* ties to even) with FracBits fraction bits and largest exponent ExpMax   *)
(* (binary32: 23 and 127).  A finite value is sign * m * 2^-UnitShift.     *)
(***************************************************************************)
EXTENDS Integers, Sequences, FiniteSets

(***************************************************************************)
(* Bounds of the model.                                                    *)
(***************************************************************************)
FracBits == 2

ExpMax == 2

NumCalls == 2

NumTables == 2

(***************************************************************************)
(* The floating-point format.                                              *)
(***************************************************************************)
Pow2(n) == 2 ^ n

ExpMin == 1 - ExpMax

\* 1.0 is Pow2(UnitShift) units; the unit is the smallest subnormal.
UnitShift == FracBits - ExpMin

\* number of binades above the one that shares its quantum with the subnormals
ExpSpan == ExpMax - ExpMin

MaxMag == (Pow2(FracBits + 1) - 1) * Pow2(ExpSpan)

Representable(m) ==
    \/ m < Pow2(FracBits + 1)
    \/ \E e \in 1..ExpSpan :
          /\ m % Pow2(e) = 0
          /\ m \div Pow2(e) >= Pow2(FracBits)
          /\ m \div Pow2(e) < Pow2(FracBits + 1)

Mags == {m \in 0..MaxMag : Representable(m)}

Fin(s, m) == [k |-> "fin", s |-> s, m |-> m]

Inf(s) == [k |-> "inf", s |-> s, m |-> 0]

NaN == [k |-> "nan", s |-> 0, m |-> 0]

Floats == {NaN} \cup {Inf(s) : s \in {0, 1}} \cup {Fin(s, m) : s \in {0, 1}, m \in Mags}

IsFinite(x) == x.k = "fin"

IsNaN(x) == x.k = "nan"

\* the literals of the source
Zero == Fin(0, 0)

Half == Fin(0, Pow2(UnitShift - 1))

One == Fin(0, Pow2(UnitShift))

\* further values used as inputs
NegZero == Fin(1, 0)

NegOne == Fin(1, Pow2(UnitShift))

Two == Fin(0, 2 * Pow2(UnitShift))

NegTwo == Fin(1, 2 * Pow2(UnitShift))

Three == Fin(0, 3 * Pow2(UnitShift))

Quarter == Fin(0, Pow2(UnitShift - 2))

PosInf == Inf(0)

NegInf == Inf(1)

\* the position of a non-NaN value on the extended real line, in units
Ord(x) ==
    IF x.k = "inf"
    THEN (IF x.s = 1 THEN -(MaxMag + 1) ELSE MaxMag + 1)
    ELSE (IF x.s = 1 THEN -x.m ELSE x.m)

\* comparisons: false when either side is NaN; -0.0 and 0.0 compare equal
FLe(x, y) == ~IsNaN(x) /\ ~IsNaN(y) /\ Ord(x) <= Ord(y)

FLt(x, y) == ~IsNaN(x) /\ ~IsNaN(y) /\ Ord(x) < Ord(y)

FEq(x, y) == ~IsNaN(x) /\ ~IsNaN(y) /\ Ord(x) = Ord(y)

FNeg(x) == IF IsNaN(x) THEN NaN ELSE [x EXCEPT !.s = 1 - x.s]

\* the quantum (spacing of representable values) at the positive rational n/d
RECURSIVE Quantum(_, _, _)
Quantum(n, d, q) ==
    IF n < Pow2(FracBits + 1) * q * d THEN q ELSE Quantum(n, d, 2 * q)

\* the positive rational n/d (in units) rounded to nearest, ties to even,
\* with sign s; overflow gives an infinity, underflow a signed zero
Round(s, n, d) ==
    LET q  == Quantum(n, d, 1)
        k  == n \div (d * q)
        r  == n - k * d * q
        up == 2 * r > d * q \/ (2 * r = d * q /\ k % 2 = 1)
        m  == (IF up THEN k + 1 ELSE k) * q
    IN  IF m > MaxMag THEN Inf(s) ELSE Fin(s, m)

FAdd(x, y) ==
    IF IsNaN(x) \/ IsNaN(y) THEN NaN
    ELSE IF x.k = "inf" /\ y.k = "inf" THEN (IF x.s = y.s THEN x ELSE NaN)
    ELSE IF x.k = "inf" THEN x
    ELSE IF y.k = "inf" THEN y
    ELSE LET v == Ord(x) + Ord(y)
         IN  IF v = 0
             THEN (IF x.s = 1 /\ y.s = 1 THEN NegZero ELSE Zero)
             ELSE IF v < 0 THEN Round(1, -v, 1) ELSE Round(0, v, 1)

FSub(x, y) == FAdd(x, FNeg(y))

XorSign(x, y) == IF x.s = y.s THEN 0 ELSE 1

FMul(x, y) ==
    IF IsNaN(x) \/ IsNaN(y) THEN NaN
    ELSE IF x.k = "inf" \/ y.k = "inf"
         THEN (IF (IsFinite(x) /\ x.m = 0) \/ (IsFinite(y) /\ y.m = 0)
               THEN NaN ELSE Inf(XorSign(x, y)))
    ELSE IF x.m = 0 \/ y.m = 0 THEN Fin(XorSign(x, y), 0)
    ELSE Round(XorSign(x, y), x.m * y.m, Pow2(UnitShift))

FDiv(x, y) ==
    IF IsNaN(x) \/ IsNaN(y) THEN NaN
    ELSE IF x.k = "inf" THEN (IF y.k = "inf" THEN NaN ELSE Inf(XorSign(x, y)))
    ELSE IF y.k = "inf" THEN Fin(XorSign(x, y), 0)
    ELSE IF y.m = 0 THEN (IF x.m = 0 THEN NaN ELSE Inf(XorSign(x, y)))
    ELSE IF x.m = 0 THEN Fin(XorSign(x, y), 0)
    ELSE Round(XorSign(x, y), x.m * Pow2(UnitShift), y.m)

(***************************************************************************)
(* The connectivity table, imported from marching_cubes_tables (line 15).   *)
(* It is modelled by what the dispatcher relies on: 256 rows of RowWidth   *)
(* i8 values, each row front-packed with whole triangles of edge indices   *)
(* 0..11 and closed by the sentinel -1, rows 0 and 255 empty.  The         *)
(* dispatcher reads positions 3*i+j of a row for i in 0..5, so a row       *)
(* holds up to five triangles.                                             *)
(***************************************************************************)
NumCorners == 8

NumConfigs == 256

RowWidth == 16

NumEdges == 12

TriangleSlots == 5

EdgesPerTriangle == 3

UsizeModulus == 65536

Corners == 0..(NumCorners - 1)

Sentinel == -1

\* a row of n triangles whose edge indices run on from `first`
Row(n, first) ==
    [p \in 0..(RowWidth - 1) |->
        IF p < EdgesPerTriangle * n THEN (first + p) % NumEdges ELSE Sentinel]

Table(s) ==
    [k \in 0..(NumConfigs - 1) |->
        IF k = 0 \/ k = NumConfigs - 1
        THEN Row(0, 0)
        ELSE Row(1 + ((k + s) % TriangleSlots), (k + 5 * s) % NumEdges)]

Tables == {Table(s) : s \in 0..(NumTables - 1)}

(***************************************************************************)
(* march_cube                                                              *)
(***************************************************************************)
Calls == 1..NumCalls

VARIABLES
    TRIANGLE_CONNECTION,  \* the static table
    pc,                   \* per call: idle, classify, check, emit, done
    values,               \* per call: the argument `values`
    cube_index,           \* per call: the local cube_index
    i,                    \* per call: the triangle index of the outer loop
    j,                    \* per call: the edge index of the inner loop
    emitted,              \* per call: the arguments edge_func was invoked with
    fn,                   \* the primitive called: none, get_offset, interpolate
    fpc,                  \* its position: none, call, returned
    fa,                   \* argument a
    fb,                   \* argument b
    ft,                   \* argument t
    fres                  \* the returned value

mvars == <<TRIANGLE_CONNECTION, pc, values, cube_index, i, j, emitted>>

fvars == <<fn, fpc, fa, fb, ft, fres>>

vars == <<TRIANGLE_CONNECTION, pc, values, cube_index, i, j, emitted,
          fn, fpc, fa, fb, ft, fres>>

\* x | y
BitOr[x \in Nat, y \in Nat] ==
    IF x = 0 THEN y
    ELSE IF y = 0 THEN x
    ELSE (IF x % 2 = 1 \/ y % 2 = 1 THEN 1 ELSE 0) + 2 * BitOr[x \div 2, y \div 2]

\* values[i] <= 0.0
CornerInside_Strict(x) == FLt(x, Zero)

CornerInside(x) == FLe(x, Zero)

\* for i in first..8 { if values[i] <= 0.0 { cube_index |= 1 << i; } }
ClassifyLoop(v, first) ==
    LET loop[n \in 0..NumCorners, idx \in Nat] ==
            IF n >= NumCorners THEN idx
            ELSE loop[n + 1, IF CornerInside(v[n]) THEN BitOr[idx, Pow2(n)] ELSE idx]
    IN  loop[first, 0]

ConfigIndex_FromOne(v) == ClassifyLoop(v, 1)

\* cube_index after the classification loop
ConfigIndex(v) == ClassifyLoop(v, 0)

\* `x as usize` for an i8 x: sign extension, then the value modulo 2^width
AsUsize(x) == (x + UsizeModulus) % UsizeModulus

NoArray == [c \in Corners |-> Zero]

Invoke(c, v) ==
    /\ pc[c] = "idle"
    /\ values' = [values EXCEPT ![c] = v]
    /\ pc' = [pc EXCEPT ![c] = "classify"]
    /\ UNCHANGED <<TRIANGLE_CONNECTION, cube_index, i, j, emitted>>
    /\ UNCHANGED fvars

Classify_SharedIndex(c) ==
    /\ pc[c] = "classify"
    /\ cube_index' = [d \in Calls |-> ConfigIndex(values[c])]
    /\ i' = [i EXCEPT ![c] = 0]
    /\ pc' = [pc EXCEPT ![c] = "check"]
    /\ UNCHANGED <<TRIANGLE_CONNECTION, values, j, emitted>>
    /\ UNCHANGED fvars

Classify(c) ==
    /\ pc[c] = "classify"
    /\ cube_index' = [cube_index EXCEPT ![c] = ConfigIndex(values[c])]
    /\ i' = [i EXCEPT ![c] = 0]
    /\ pc' = [pc EXCEPT ![c] = "check"]
    /\ UNCHANGED <<TRIANGLE_CONNECTION, values, j, emitted>>
    /\ UNCHANGED fvars

CheckTriangle_NoBreak(c) ==
    /\ pc[c] = "check"
    /\ IF i[c] >= TriangleSlots
       THEN pc' = [pc EXCEPT ![c] = "done"] /\ j' = j
       ELSE pc' = [pc EXCEPT ![c] = "emit"] /\ j' = [j EXCEPT ![c] = 0]
    /\ UNCHANGED <<TRIANGLE_CONNECTION, values, cube_index, i, emitted>>
    /\ UNCHANGED fvars

\* the head of the outer loop: for i in 0..5 { if TABLE[cube_index][3 * i] < 0 { break; } ..
CheckTriangle(c) ==
    /\ pc[c] = "check"
    /\ IF i[c] >= TriangleSlots
       THEN pc' = [pc EXCEPT ![c] = "done"] /\ j' = j
       ELSE IF TRIANGLE_CONNECTION[cube_index[c]][EdgesPerTriangle * i[c]] < 0
            THEN pc' = [pc EXCEPT ![c] = "done"] /\ j' = j
            ELSE pc' = [pc EXCEPT ![c] = "emit"] /\ j' = [j EXCEPT ![c] = 0]
    /\ UNCHANGED <<TRIANGLE_CONNECTION, values, cube_index, i, emitted>>
    /\ UNCHANGED fvars

EmitEdge_TwoEdges(c) ==
    /\ pc[c] = "emit"
    /\ LET edge == AsUsize(TRIANGLE_CONNECTION[cube_index[c]][EdgesPerTriangle * i[c] + j[c]])
       IN  emitted' = [emitted EXCEPT ![c] = Append(@, edge)]
    /\ IF j[c] + 1 >= EdgesPerTriangle - 1
       THEN /\ i' = [i EXCEPT ![c] = @ + 1]
            /\ j' = j
            /\ pc' = [pc EXCEPT ![c] = "check"]
       ELSE /\ j' = [j EXCEPT ![c] = @ + 1]
            /\ UNCHANGED <<i, pc>>
    /\ UNCHANGED <<TRIANGLE_CONNECTION, values, cube_index>>
    /\ UNCHANGED fvars

EmitEdge_RowStride(c) ==
    /\ pc[c] = "emit"
    /\ LET edge == AsUsize(TRIANGLE_CONNECTION[cube_index[c]][i[c] + j[c]])
       IN  emitted' = [emitted EXCEPT ![c] = Append(@, edge)]
    /\ IF j[c] + 1 >= EdgesPerTriangle
       THEN /\ i' = [i EXCEPT ![c] = @ + 1]
            /\ j' = j
            /\ pc' = [pc EXCEPT ![c] = "check"]
       ELSE /\ j' = [j EXCEPT ![c] = @ + 1]
            /\ UNCHANGED <<i, pc>>
    /\ UNCHANGED <<TRIANGLE_CONNECTION, values, cube_index>>
    /\ UNCHANGED fvars

\* one pass of the inner loop: for j in 0..3 { edge_func(TABLE[cube_index][3 * i + j] as usize) }
EmitEdge(c) ==
    /\ pc[c] = "emit"
    /\ LET edge == AsUsize(TRIANGLE_CONNECTION[cube_index[c]][EdgesPerTriangle * i[c] + j[c]])
       IN  emitted' = [emitted EXCEPT ![c] = Append(@, edge)]
    /\ IF j[c] + 1 >= EdgesPerTriangle
       THEN /\ i' = [i EXCEPT ![c] = @ + 1]
            /\ j' = j
            /\ pc' = [pc EXCEPT ![c] = "check"]
       ELSE /\ j' = [j EXCEPT ![c] = @ + 1]
            /\ UNCHANGED <<i, pc>>
    /\ UNCHANGED <<TRIANGLE_CONNECTION, values, cube_index>>
    /\ UNCHANGED fvars

\* march_cube returns: its locals are dropped
Return(c) ==
    /\ pc[c] = "done"
    /\ pc' = [pc EXCEPT ![c] = "idle"]
    /\ values' = [values EXCEPT ![c] = NoArray]
    /\ cube_index' = [cube_index EXCEPT ![c] = 0]
    /\ i' = [i EXCEPT ![c] = 0]
    /\ j' = [j EXCEPT ![c] = 0]
    /\ emitted' = [emitted EXCEPT ![c] = << >>]
    /\ UNCHANGED TRIANGLE_CONNECTION
    /\ UNCHANGED fvars

AllIdle == \A c \in Calls : pc[c] = "idle"

(***************************************************************************)
(* get_offset and interpolate                                              *)
(***************************************************************************)
get_offset_NoZeroCheck(a, b) == FDiv(FNeg(a), FSub(b, a))

get_offset_SignSlip(a, b) ==
    LET delta == FSub(b, a)
    IN  IF FEq(delta, Zero) THEN Half ELSE FDiv(a, delta)

get_offset(a, b) ==
    LET delta == FSub(b, a)
    IN  IF FEq(delta, Zero) THEN Half ELSE FDiv(FNeg(a), delta)

interpolate_Swapped(a, b, t) == FAdd(FMul(a, t), FMul(b, FSub(One, t)))

\* T = f32
interpolate(a, b, t) == FAdd(FMul(a, FSub(One, t)), FMul(b, t))

GetOffsetReturn ==
    /\ fn = "get_offset"
    /\ fpc = "call"
    /\ fres' = get_offset(fa, fb)
    /\ fpc' = "returned"
    /\ UNCHANGED <<fn, fa, fb, ft>>
    /\ UNCHANGED mvars

InterpolateReturn ==
    /\ fn = "interpolate"
    /\ fpc = "call"
    /\ fres' = interpolate(fa, fb, ft)
    /\ fpc' = "returned"
    /\ UNCHANGED <<fn, fa, fb, ft>>
    /\ UNCHANGED mvars

(***************************************************************************)
(* Inputs                                                                  *)
(***************************************************************************)
\* the inputs of the dispatcher runs: every sign pattern, and leading zeros
SignArrays == [Corners -> {NegOne, One}]

ZeroArrays ==
    {[c \in Corners |-> IF c < n THEN Zero ELSE d] :
        n \in 1..NumCorners, d \in {NegOne, One}}

\* densities of one sign and several magnitudes
OneSignArrays ==
    {[c \in Corners |-> IF c % 2 = 0 THEN x ELSE y] : x, y \in {Half, Two, PosInf}}
    \cup {[c \in Corners |-> IF c % 2 = 0 THEN x ELSE y] : x, y \in {NegOne, NegTwo, NegInf}}

CubeSamples == SignArrays \cup ZeroArrays \cup OneSignArrays

\* the inputs of the classifier runs: negative, zero, positive or NaN at each
\* corner, and every sign pattern with one corner replaced by another value
OneSpecial ==
    {[v EXCEPT ![c] = d] :
        v \in SignArrays, c \in Corners, d \in {NegZero, PosInf, NegInf, Half, NegTwo}}

DensityArrays == [Corners -> {NegOne, Zero, One, NaN}] \cup OneSpecial

\* the inputs of the concurrent runs: configurations 0, 4, 15 and 255
ConcSamples ==
    {[c \in Corners |-> IF c \in S THEN NegOne ELSE One] :
        S \in {{}, {2}, {0, 1, 2, 3}, Corners}}

\* the fraction arguments of interpolate
Fractions == {Zero, NegZero, Quarter, Half, One, Two, NegOne, NaN}

(***************************************************************************)
(* Specifications                                                          *)
(***************************************************************************)
MarchIdle ==
    /\ pc = [c \in Calls |-> "idle"]
    /\ values = [c \in Calls |-> NoArray]
    /\ cube_index = [c \in Calls |-> 0]
    /\ i = [c \in Calls |-> 0]
    /\ j = [c \in Calls |-> 0]
    /\ emitted = [c \in Calls |-> << >>]

NoFloatCall ==
    /\ fn = "none"
    /\ fpc = "none"
    /\ fa = Zero
    /\ fb = Zero
    /\ ft = Zero
    /\ fres = Zero

Init ==
    /\ TRIANGLE_CONNECTION \in Tables
    /\ MarchIdle
    /\ NoFloatCall

\* march_cube, one call at a time
Next ==
    \E c \in Calls :
        \/ AllIdle /\ \E v \in CubeSamples : Invoke(c, v)
        \/ Classify(c)
        \/ CheckTriangle(c)
        \/ EmitEdge(c)
        \/ Return(c)

Spec == Init /\ [][Next]_vars

\* march_cube, calls overlapping in every way
NextConc ==
    \E c \in Calls :
        \/ pc[c] = "idle" /\ \E v \in ConcSamples : Invoke(c, v)
        \/ Classify(c)
        \/ CheckTriangle(c)
        \/ EmitEdge(c)
        \/ Return(c)

SpecConc == Init /\ [][NextConc]_vars

\* the classification loop of march_cube alone
InitClassify ==
    /\ TRIANGLE_CONNECTION = Table(0)
    /\ MarchIdle
    /\ NoFloatCall

NextClassify ==
    \E c \in Calls :
        \/ AllIdle /\ \E v \in DensityArrays : Invoke(c, v)
        \/ Classify(c)

SpecClassify == InitClassify /\ [][NextClassify]_vars

InitOffset ==
    /\ TRIANGLE_CONNECTION = Table(0)
    /\ MarchIdle
    /\ fn = "get_offset"
    /\ fpc = "call"
    /\ fa \in Floats
    /\ fb \in Floats
    /\ ft = Zero
    /\ fres = Zero

SpecOffset == InitOffset /\ [][GetOffsetReturn]_vars

InitInterpolate ==
    /\ TRIANGLE_CONNECTION = Table(0)
    /\ MarchIdle
    /\ fn = "interpolate"
    /\ fpc = "call"
    /\ fa \in Floats
    /\ fb \in Floats
    /\ ft \in Fractions
    /\ fres = Zero

SpecInterpolate == InitInterpolate /\ [][InterpolateReturn]_vars

(***************************************************************************)
(* The sequence of one call run on its own, as a function of its inputs.   *)
(***************************************************************************)
RECURSIVE RunTriangles(_, _, _)
RunTriangles(row, n, out) ==
    IF n >= TriangleSlots \/ row[EdgesPerTriangle * n] < 0
    THEN out
    ELSE RunTriangles(row, n + 1,
                      out \o [e \in 1..EdgesPerTriangle |->
                                 AsUsize(row[EdgesPerTriangle * n + e - 1])])

MarchAlone(table, v) == RunTriangles(table[ConfigIndex(v)], 0, << >>)

(***************************************************************************)
(* Properties                                                              *)
(***************************************************************************)
Classified(c) == pc[c] \in {"check", "emit", "done"}

Bit(x, n) == (x \div Pow2(n)) % 2

\* x <= 0 read off the value: zero of either sign, negative finite, or -infinity
AtOrBelowZero(x) ==
    \/ x.k = "fin" /\ (x.m = 0 \/ x.s = 1)
    \/ x.k = "inf" /\ x.s = 1

StrictlyPositive(x) == (x.k = "fin" /\ x.m > 0 /\ x.s = 0) \/ (x.k = "inf" /\ x.s = 0)

StrictlyNegative(x) == (x.k = "fin" /\ x.m > 0 /\ x.s = 1) \/ (x.k = "inf" /\ x.s = 1)

Negate(v) == [n \in Corners |-> FNeg(v[n])]

\* C1: the configuration index a call computes lies in 0..255 and its bit n is
\* set exactly when values[n] <= 0; a density of zero sets its bit.
C1_ConfigIndexBits ==
    \A c \in Calls :
        Classified(c) =>
            /\ cube_index[c] \in 0..(NumConfigs - 1)
            /\ \A n \in Corners :
                  (Bit(cube_index[c], n) = 1) <=> AtOrBelowZero(values[c][n])
            /\ \A n \in Corners :
                  values[c][n] \in {Zero, NegZero} => Bit(cube_index[c], n) = 1

C1_Witness ==
    \E c \in Calls :
        /\ Classified(c)
        /\ values[c][0] = Zero /\ Bit(cube_index[c], 0) = 1
        /\ values[c][1] = One /\ Bit(cube_index[c], 1) = 0
        /\ values[c][2] = NaN /\ Bit(cube_index[c], 2) = 0
        /\ values[c][3] = NegOne /\ Bit(cube_index[c], 3) = 1

\* C6 as stated: for every density array with configuration index k, the
\* negated array has configuration index 255 - k.
C6_NegationComplements_AsStated ==
    \A c \in Calls :
        Classified(c) =>
            ConfigIndex(Negate(values[c])) = (NumConfigs - 1) - cube_index[c]

\* C6, amended: for every density array whose eight densities are all strictly
\* positive or strictly negative (none zero, none NaN) and whose configuration
\* index is k, the negated array has configuration index 255 - k.
C6_NegationComplements ==
    \A c \in Calls :
        (/\ Classified(c)
         /\ \A n \in Corners :
               StrictlyPositive(values[c][n]) \/ StrictlyNegative(values[c][n]))
        => ConfigIndex(Negate(values[c])) = (NumConfigs - 1) - cube_index[c]

C6_Witness ==
    \E c \in Calls :
        /\ Classified(c)
        /\ \A n \in Corners :
              StrictlyPositive(values[c][n]) \/ StrictlyNegative(values[c][n])
        /\ cube_index[c] = 15
        /\ ConfigIndex(Negate(values[c])) = 240

Run(c) == Classify(c) \/ CheckTriangle(c) \/ EmitEdge(c)

\* the number of steps a call has left at most
Rank(c) ==
    CASE pc[c] = "classify" -> 4 * TriangleSlots + 2
      [] pc[c] = "check"    -> 4 * (TriangleSlots - i[c]) + 1
      [] pc[c] = "emit"     -> 4 * (TriangleSlots - i[c]) - j[c]
      [] OTHER              -> 0

FirstSentinelSlot(row) ==
    LET heads == {n \in 0..(TriangleSlots - 1) : row[EdgesPerTriangle * n] < 0}
    IN  IF heads = {} THEN TriangleSlots
        ELSE CHOOSE n \in heads : \A m \in heads : n <= m

RowPrefix(row, n) == [p \in 1..n |-> row[p - 1]]

\* C3: at every point of a call the callback arguments so far are the table
\* row's values at positions 0, 1, 2, ... in that order, one per position,
\* only from slots before the first sentinel-headed slot k; when the call ends
\* they are exactly the first 3*k values of the row.
C3_TableOrder ==
    \A c \in Calls :
        Classified(c) =>
            LET row == TRIANGLE_CONNECTION[cube_index[c]]
                k   == FirstSentinelSlot(row)
                n   == Len(emitted[c])
            IN  /\ n <= 3 * k
                /\ emitted[c] = RowPrefix(row, n)
                /\ n = 3 * i[c] + (IF pc[c] = "emit" THEN j[c] ELSE 0)
                /\ pc[c] = "emit" => i[c] < k
                /\ pc[c] = "done" => n = 3 * k

C3_Witness ==
    \E c \in Calls :
        /\ pc[c] = "done"
        /\ FirstSentinelSlot(TRIANGLE_CONNECTION[cube_index[c]]) = 2
        /\ Len(emitted[c]) = 6
        /\ emitted[c][4] = TRIANGLE_CONNECTION[cube_index[c]][3]

\* C4: a call whose eight densities are all strictly positive computes
\* configuration 0, one whose densities are all negative computes 255, and
\* neither ever invokes the callback.
C4_NoCrossing ==
    \A c \in Calls :
        /\ (Classified(c) /\ \A n \in Corners : StrictlyPositive(values[c][n]))
           => cube_index[c] = 0 /\ emitted[c] = << >>
        /\ (Classified(c) /\ \A n \in Corners : StrictlyNegative(values[c][n]))
           => cube_index[c] = NumConfigs - 1 /\ emitted[c] = << >>

C4_Witness ==
    \E c \in Calls :
        /\ pc[c] = "done"
        /\ \A n \in Corners : StrictlyNegative(values[c][n])
        /\ cube_index[c] = 255
        /\ emitted[c] = << >>

\* every triangle of the table with a non-negative first slot has
\* non-negative second and third slots
WholeTriangles(table) ==
    \A k \in DOMAIN table : \A n \in 0..(TriangleSlots - 1) :
        table[k][EdgesPerTriangle * n] >= 0 =>
            /\ table[k][EdgesPerTriangle * n + 1] >= 0
            /\ table[k][EdgesPerTriangle * n + 2] >= 0

\* C10: provided every triangle of the table is whole, every value passed to
\* the callback is an edge index in 0..11; no sentinel is cast and delivered.
C10_EdgeIndices ==
    \/ \A c \in Calls : \A p \in 1..Len(emitted[c]) :
          emitted[c][p] \in 0..(NumEdges - 1)
    \/ ~WholeTriangles(TRIANGLE_CONNECTION)

C10_Witness ==
    /\ WholeTriangles(TRIANGLE_CONNECTION)
    /\ \E c \in Calls :
          /\ pc[c] = "done"
          /\ Len(emitted[c]) = 9
          /\ TRIANGLE_CONNECTION[cube_index[c]][9] = Sentinel

\* C8: under every interleaving each finished call has delivered exactly the
\* sequence it delivers when run alone, and no step writes the table.
C8_Independent ==
    /\ [](\A c \in Calls :
             pc[c] = "done" => emitted[c] = MarchAlone(TRIANGLE_CONNECTION, values[c]))
    /\ [][TRIANGLE_CONNECTION' = TRIANGLE_CONNECTION]_vars

C8_Witness ==
    \E c, d \in Calls :
        /\ c # d
        /\ pc[c] = "done" /\ Len(emitted[c]) = 15
        /\ pc[d] = "emit" /\ Len(emitted[d]) = 1
        /\ cube_index[c] # cube_index[d]

Returned(f) == fn = f /\ fpc = "returned"

\* C5: get_offset(a, b) is 0.5 whenever b - a is zero, and the quotient
\* -a / (b - a) itself otherwise: (1, -1), (0, 0), (-2, 2) give 0.5 and
\* (-1, 3) gives 0.25.
C5_GetOffset ==
    Returned("get_offset") =>
        /\ FEq(FSub(fb, fa), Zero) => fres = Half
        /\ (IsFinite(fa) /\ fa = fb) => fres = Half
        /\ ~FEq(FSub(fb, fa), Zero) => fres = FDiv(FNeg(fa), FSub(fb, fa))
        /\ (fa = One /\ fb = NegOne) => fres = Half
        /\ (fa = Zero /\ fb = Zero) => fres = Half
        /\ (fa = NegTwo /\ fb = Two) => fres = Half
        /\ (fa = NegOne /\ fb = Three) => fres = Quarter

C5_Witness ==
    /\ Returned("get_offset")
    /\ fa = NegOne
    /\ fb = Three
    /\ fres = Quarter

WithinUnit(x) == FLe(Zero, x) /\ FLe(x, One)

OppositeSigns(a, b) ==
    \/ StrictlyNegative(a) /\ StrictlyPositive(b)
    \/ StrictlyNegative(b) /\ StrictlyPositive(a)

SameSigns(a, b) ==
    \/ StrictlyNegative(a) /\ StrictlyNegative(b)
    \/ StrictlyPositive(a) /\ StrictlyPositive(b)

\* C9 as stated: opposite signs give a result within [0,1]; same signs with
\* a /= b give a result outside [0,1].
C9_OffsetRange_AsStated ==
    Returned("get_offset") =>
        /\ OppositeSigns(fa, fb) => WithinUnit(fres)
        /\ (SameSigns(fa, fb) /\ ~FEq(fa, fb)) => ~WithinUnit(fres)

\* C9, amended: for finite densities of strictly opposite sign the result is
\* within [0,1]; for finite same-sign densities with a /= b the result is
\* never strictly between 0 and 1: it is <= 0 or >= 1 (rounding can make it
\* exactly 1 or a zero) and is returned as computed, unclamped.
C9_OffsetRange ==
    (Returned("get_offset") /\ IsFinite(fa) /\ IsFinite(fb)) =>
        /\ OppositeSigns(fa, fb) => WithinUnit(fres)
        /\ (SameSigns(fa, fb) /\ ~FEq(fa, fb)) =>
              /\ FLe(fres, Zero) \/ FLe(One, fres)
              /\ fres = FDiv(FNeg(fa), FSub(fb, fa))

C9_Witness ==
    /\ Returned("get_offset")
    /\ IsFinite(fa) /\ IsFinite(fb)
    /\ SameSigns(fa, fb) /\ ~FEq(fa, fb)
    /\ FSub(fb, fa) = FNeg(fa)
    /\ fres = One

\* C7 as stated: interpolate(a, b, 0) equals a and interpolate(a, b, 1) equals
\* b for every a and b.
C7_Endpoints_AsStated ==
    Returned("interpolate") =>
        /\ ft = Zero => FEq(fres, fa)
        /\ ft = One => FEq(fres, fb)

\* C7, amended: interpolate(a, b, t) is a*(1-t) + b*t; for every finite a and
\* b, interpolate(a, b, 0) equals a and interpolate(a, b, 1) equals b; a t
\* outside [0,1] extrapolates: (1, 2, 2) gives 3 and (1, 2, -1) gives 0.
C7_Endpoints ==
    Returned("interpolate") =>
        /\ fres \in Floats
        /\ (IsFinite(fa) /\ IsFinite(fb) /\ FEq(ft, Zero)) => FEq(fres, fa)
        /\ (IsFinite(fa) /\ IsFinite(fb) /\ ft = One) => FEq(fres, fb)
        /\ (fa = One /\ fb = Two /\ ft = Two) => fres = Three
        /\ (fa = One /\ fb = Two /\ ft = NegOne) => FEq(fres, Zero)
        /\ (fa = One /\ fb = Three /\ ft = Quarter)
              => fres = FAdd(FMul(One, FSub(One, Quarter)), FMul(Three, Quarter))

C7_Witness ==
    /\ Returned("interpolate")
    /\ fa = Three
    /\ fb = NegTwo
    /\ ft = One
    /\ fres = NegTwo

====
